---- MODULE Spec2Model ----
(***************************************************************************)
(* A model of the URL shortener: the redirect handlers of                  *)
(* utils/redirectUtils.ts, the shortening service of utils/urlShortener.ts *)
(* and the `links` collection they work on.  A string of the program is a  *)
(* sequence of one-character strings, so that trim() and the short-code    *)
(* pattern are computed rather than assumed.  Every `await` of a handler   *)
(* is one step of its process; the steps of different processes            *)
(* interleave freely, as the calls of different browser tabs do.           *)
(***************************************************************************)
EXTENDS Integers, Sequences, FiniteSets, TLC

\* ------------------------------------------------------------------ bounds

NumProcs == 2
MaxOps == 3
MaxLinks == 2
GenCodeLength == 1
MaxAttempts == 2
MaxValidateLen == 3
MaxPathSegments == 2

\* ---------------------------------------------------------------- constants

MaxCodeLength == 50

Procs == 1..NumProcs

\* ------------------------------------------------------------------ strings

None == {}

Some(x) == {x}

The(s) == CHOOSE x \in s : TRUE

Str1(a) == <<a>>

Str2(a, b) == <<a, b>>

Repeat(c, n) == [i \in 1..n |-> c]

IsSpace(c) == c = " "

RECURSIVE TrimStart(_)
TrimStart(s) ==
  IF s # <<>> /\ IsSpace(Head(s)) THEN TrimStart(Tail(s)) ELSE s

RECURSIVE TrimEnd(_)
TrimEnd(s) ==
  IF s # <<>> /\ IsSpace(s[Len(s)]) THEN TrimEnd(SubSeq(s, 1, Len(s) - 1)) ELSE s

Trim(s) == TrimEnd(TrimStart(s))

Lower ==
  {"a", "b", "c", "d", "e", "f", "g", "h", "i", "j", "k", "l", "m",
   "n", "o", "p", "q", "r", "s", "t", "u", "v", "w", "x", "y", "z"}

Upper ==
  {"A", "B", "C", "D", "E", "F", "G", "H", "I", "J", "K", "L", "M",
   "N", "O", "P", "Q", "R", "S", "T", "U", "V", "W", "X", "Y", "Z"}

Digits == {"0", "1", "2", "3", "4", "5", "6", "7", "8", "9"}

validPattern_NoAnchor(s) == \E i \in 1..Len(s) : s[i] \in Lower \cup Upper \cup Digits \cup {"_", "-"}

validPattern(s) == s # <<>> /\ \A i \in 1..Len(s) : s[i] \in Lower \cup Upper \cup Digits \cup {"_", "-"}

isValidShortCodeFormat(shortCode) ==
  IF shortCode = <<>> \/ Trim(shortCode) = <<>> THEN FALSE
  ELSE IF Len(shortCode) < 1 \/ Len(shortCode) > MaxCodeLength THEN FALSE
  ELSE validPattern(shortCode)

\* A URL string is a sequence of tokens: a scheme prefix ("https://"), a
\* host-like word ("h") or a blank (" ").

SchemeTokens == {"http://", "https://", "ftp://"}

HasHttpPrefix(url) == url # <<>> /\ Head(url) \in {"http://", "https://"}

formatUrl(url) ==
  IF url = <<>> THEN <<>>
  ELSE LET t == Trim(url)
       IN IF ~HasHttpPrefix(t) THEN <<"https://">> \o t ELSE t

\* new URL(): the host of an http(s) URL runs to the first ':' or '/', must
\* not be empty and must not hold a blank.
HostEnd(rest) ==
  IF \E i \in 1..Len(rest) : rest[i] \in SchemeTokens
  THEN CHOOSE i \in 1..Len(rest) :
         /\ rest[i] \in SchemeTokens
         /\ \A j \in 1..(i - 1) : rest[j] \notin SchemeTokens
  ELSE Len(rest) + 1

UrlParses(url) ==
  /\ url # <<>>
  /\ Head(url) \in SchemeTokens
  /\ LET rest == Tail(url)
     IN /\ rest # <<>>
        /\ \A j \in 1..(HostEnd(rest) - 1) : ~IsSpace(rest[j])
        /\ ~IsSpace(rest[1])

isValidUrl(url) == UrlParses(url) /\ Head(url) \in {"http://", "https://"}

BASE_URL == <<"https://", "origin">>

getShortUrl(shortCode) == BASE_URL \o <<"/">> \o shortCode

\* ------------------------------------------------------------------- inputs

LongCode == Repeat("a", MaxCodeLength + 1)

Admin == <<"a", "d", "m", "i", "n">>

RedirectCodes == {<<>>, Str1(" "), Str1("a"), Str2("a", " "), Str2("a", "@")}

CustomCodes == {<<>>, Str1("a"), Str2("a", "@")}

InputUrls == {<<>>, Str1("h"), Str2("http://", "h")}

Users == {"u1", "u2"}

Handlers == {"handleRedirect", "handleRedirectWithClickTracking"}

GenAlphabet == {"a", "b"}

GenCodes == [1..GenCodeLength -> GenAlphabet]

\* -------------------------------------------------------------------- state

VARIABLES
  links,      \* the `links` collection: document id -> Link
  nextId,     \* the next document id the backend assigns
  clock,      \* the clock, one tick per timestamped write
  created,    \* history: document id -> the Link as it was created
  recorded,   \* history: document id -> click recordings that succeeded
  lost,       \* history: document id -> click writes applied but rejected
  pc,         \* where each call stands
  req,        \* the request each call serves
  link,       \* the `link` local of a redirect handler
  shortCode,  \* the `shortCode` local of shortenUrl
  attempts,   \* the attempt counter of generateUniqueShortCode
  result,     \* what the call returned
  calls,      \* history: the backend calls of the request, <<name, outcome>>
  started,    \* requests started so far
  ui,         \* the state of the page component on screen
  pending     \* the backend calls that component has in flight

\* The store and the calls of the utility functions.
coreVars ==
  <<links, nextId, clock, created, recorded, lost, pc, req, link, shortCode,
    attempts, result, calls, started>>

vars ==
  <<links, nextId, clock, created, recorded, lost, pc, req, link, shortCode,
    attempts, result, calls, started, ui, pending>>

NoTime == 0

NoRequest ==
  [kind |-> "none", handler |-> "none", shortCode |-> <<>>, originalUrl |-> <<>>,
   customShortCode |-> <<>>, userId |-> "none", linkId |-> 0]

\* No page component is under study.
NoUi == [page |-> "none"]

CoreInit ==
  /\ links = <<>>
  /\ nextId = 1
  /\ clock = 1
  /\ created = <<>>
  /\ recorded = <<>>
  /\ lost = <<>>
  /\ pc = [p \in Procs |-> "idle"]
  /\ req = [p \in Procs |-> NoRequest]
  /\ link = [p \in Procs |-> None]
  /\ shortCode = [p \in Procs |-> None]
  /\ attempts = [p \in Procs |-> 0]
  /\ result = [p \in Procs |-> None]
  /\ calls = [p \in Procs |-> <<>>]
  /\ started = 0

Init ==
  /\ CoreInit
  /\ ui = NoUi
  /\ pending = {}

\* A slot is free when it serves no call.  A new request takes the first free
\* slot (the slots are interchangeable), and what a finished call returned is
\* kept for one state: the next step of any call clears it.
Free(p) == pc[p] \in {"idle", "done"}

CanStart(p) == Free(p) /\ started < MaxOps /\ \A q \in 1..(p - 1) : ~Free(q)

Others(f, p, v, blank) ==
  [q \in Procs |-> IF q = p THEN v ELSE IF pc[q] = "done" THEN blank ELSE f[q]]

Local(p, npc, nreq, nlink, ncode, nattempts, nresult, ncalls) ==
  /\ pc' = Others(pc, p, npc, "idle")
  /\ req' = Others(req, p, nreq, NoRequest)
  /\ link' = Others(link, p, nlink, None)
  /\ shortCode' = Others(shortCode, p, ncode, None)
  /\ attempts' = Others(attempts, p, nattempts, 0)
  /\ result' = Others(result, p, nresult, None)
  /\ calls' = Others(calls, p, ncalls, <<>>)
  /\ UNCHANGED <<ui, pending>>

\* The call of slot p goes on to `npc`, having issued the backend call `ev`.
Goto(p, npc, nlink, ncode, nattempts, ev) ==
  Local(p, npc, req[p], nlink, ncode, nattempts, None, Append(calls[p], ev))

\* The call of slot p returns `r`, having issued the backend call `ev`.
Return(p, r, ev) ==
  Local(p, "done", req[p], link[p], shortCode[p], attempts[p], Some(r),
        Append(calls[p], ev))

\* ------------------------------------------------------- the link repository

MatchingIds(code) == {i \in DOMAIN links : links[i].shortCode = code}

shortCodeExists(code) == MatchingIds(code) # {}

NewLink(id, data, t) ==
  [id |-> id, originalUrl |-> data.originalUrl, shortCode |-> data.shortCode,
   createdAt |-> t, clicks |-> 0, lastClickedAt |-> NoTime, userId |-> data.userId]

ClickStatsUpdate_Reset(l, t) == [l EXCEPT !.clicks = 0, !.lastClickedAt = t]

ClickStatsUpdate_Rewrites(l, t) ==
  [l EXCEPT !.clicks = @ + 1, !.lastClickedAt = t, !.originalUrl = <<>>]

ClickStatsUpdate(l, t) == [l EXCEPT !.clicks = @ + 1, !.lastClickedAt = t]

ClickIncrement(l) == [l EXCEPT !.clicks = @ + 1]

\* What a write to document `id` can come to: acknowledged, rejected, or
\* applied with the acknowledgement lost.  A write to a document that is gone
\* is rejected.
WriteOutcomes(id) == IF id \in DOMAIN links THEN {"ok", "fail", "lost"} ELSE {"fail"}

Applied(outcome) == outcome \in {"ok", "lost"}

Bump(f, id) == [f EXCEPT ![id] = @ + 1]

\* ------------------------------------------------------- the redirect handler

Failure(msg) ==
  [success |-> FALSE, originalUrl |-> None, error |-> Some(msg), linkData |-> None,
   data |-> None]

InvalidCodeResult == Failure("Invalid short code")

NotFoundResult_Unchecked == Failure("An error occurred while processing the redirect")

NotFoundResult == Failure("Link not found")

RedirectErrorResult == Failure("An error occurred while processing the redirect")

ResultClicks_Stale(l) == l.clicks

ResultClicks(l) == l.clicks + 1

RedirectSuccess(l, t) ==
  [success |-> TRUE, originalUrl |-> Some(l.originalUrl), error |-> None,
   linkData |-> Some([id |-> l.id, originalUrl |-> l.originalUrl,
                      shortCode |-> l.shortCode, clicks |-> ResultClicks(l),
                      createdAt |-> l.createdAt, lastClickedAt |-> t]),
   data |-> None]

RedirectRequest(h, code) ==
  [NoRequest EXCEPT !.kind = "redirect", !.handler = h, !.shortCode = code]

IsBlankCode_NoTrim(code) == code = <<>>

\* `!shortCode || shortCode.trim().length === 0`
IsBlankCode(code) == code = <<>> \/ Len(Trim(code)) = 0

\* `getLinkByShortCode(shortCode.trim())`
LookupKey(code) == Trim(code)

FallbackNeeded_Never(outcome) == FALSE

FallbackNeeded_Always(outcome) == TRUE

\* The catch around updateClickStats: the fallback runs when the call rejected.
FallbackNeeded(outcome) == outcome # "ok"

AfterFallback_Surfaces(l, outcome, t) ==
  IF outcome = "ok" THEN RedirectSuccess(l, t) ELSE RedirectErrorResult

\* The catch around incrementLinkClicks swallows the rejection.
AfterFallback(l, outcome, t) == RedirectSuccess(l, t)

CatchRedirectError_AsNotFound == NotFoundResult

\* The outer catch of the handler.
CatchRedirectError == RedirectErrorResult

StartRedirect(p, h, code) ==
  /\ CanStart(p)
  /\ started' = started + 1
  /\ IF IsBlankCode(code)
     THEN Local(p, "done", RedirectRequest(h, code), None, None, 0,
                Some(InvalidCodeResult), <<>>)
     ELSE Local(p, "lookup", RedirectRequest(h, code), None, None, 0, None, <<>>)
  /\ UNCHANGED <<links, nextId, clock, created, recorded, lost>>

Lookup(p) ==
  /\ pc[p] = "lookup"
  /\ LET key == LookupKey(req[p].shortCode)
     IN \/ Return(p, CatchRedirectError, <<"getLinkByShortCode", "error">>)
        \/ /\ MatchingIds(key) = {}
           /\ Return(p, NotFoundResult, <<"getLinkByShortCode", "null">>)
        \/ \E i \in MatchingIds(key) :
             Goto(p, "primary", Some(links[i]), None, 0, <<"getLinkByShortCode", "found">>)
  /\ UNCHANGED <<links, nextId, clock, created, recorded, lost, started>>

UpdateClickStats(p) ==
  /\ pc[p] = "primary"
  /\ LET l == The(link[p])
     IN \E outcome \in WriteOutcomes(l.id) :
          /\ IF Applied(outcome)
             THEN /\ links' = [links EXCEPT ![l.id] = ClickStatsUpdate(@, clock)]
                  /\ clock' = clock + 1
             ELSE UNCHANGED <<links, clock>>
          /\ lost' = IF outcome = "lost" THEN Bump(lost, l.id) ELSE lost
          /\ IF FallbackNeeded(outcome)
             THEN /\ Goto(p, "fallback", link[p], None, 0, <<"updateClickStats", outcome>>)
                  /\ UNCHANGED recorded
             ELSE /\ Return(p, RedirectSuccess(l, clock'), <<"updateClickStats", outcome>>)
                  /\ recorded' = Bump(recorded, l.id)
  /\ UNCHANGED <<nextId, created, started>>

IncrementLinkClicks(p) ==
  /\ pc[p] = "fallback"
  /\ LET l == The(link[p])
     IN \E outcome \in WriteOutcomes(l.id) :
          /\ links' = IF Applied(outcome)
                      THEN [links EXCEPT ![l.id] = ClickIncrement(@)]
                      ELSE links
          /\ lost' = IF outcome = "lost" THEN Bump(lost, l.id) ELSE lost
          /\ recorded' = IF outcome = "ok" THEN Bump(recorded, l.id) ELSE recorded
          /\ Return(p, AfterFallback(l, outcome, clock), <<"incrementLinkClicks", outcome>>)
  /\ UNCHANGED <<nextId, clock, created, started>>

\* ---------------------------------------------------- the shortening service

ReservedWords ==
  {Admin, <<"l", "o", "g", "i", "n">>, <<"s", "i", "g", "n", "u", "p">>,
   <<"d", "a", "s", "h", "b", "o", "a", "r", "d">>}

validateShortCode(code) ==
  IF code = <<>> THEN [isValid |-> FALSE, error |-> "Short code cannot be empty"]
  ELSE IF Len(code) < 1 \/ Len(code) > MaxCodeLength
  THEN [isValid |-> FALSE, error |-> "Short code must be between 1 and 50 characters"]
  ELSE IF ~validPattern(code)
  THEN [isValid |-> FALSE,
        error |-> "Short code can only contain letters, numbers, hyphens, and underscores"]
  ELSE IF code \in ReservedWords
  THEN [isValid |-> FALSE, error |-> "This short code is reserved"]
  ELSE [isValid |-> TRUE, error |-> ""]

InvalidUrlError == "Please enter a valid URL (e.g., https://example.com)"

CodeTakenError == "This short code is already taken. Please choose a different one."

GenerationError == "Failed to generate a unique short code. Please try again."

UnexpectedError == "An unexpected error occurred. Please try again."

CatchShortenError_AsTaken == Failure(CodeTakenError)

\* The outer catch of shortenUrl.
CatchShortenError == Failure(UnexpectedError)

CatchGenerationError_Outer == Failure(UnexpectedError)

\* The catch around `await generateUniqueShortCode()`.
CatchGenerationError == Failure(GenerationError)

ShortenSuccess_NoSlash(id, url, code, t) ==
  [success |-> TRUE, originalUrl |-> None, error |-> None, linkData |-> None,
   data |-> Some([id |-> id, originalUrl |-> url, shortCode |-> code,
                  shortUrl |-> BASE_URL \o code, createdAt |-> t])]

\* shortUrl is `${BASE_URL}/${shortCode}`
ShortenSuccess(id, url, code, t) ==
  [success |-> TRUE, originalUrl |-> None, error |-> None, linkData |-> None,
   data |-> Some([id |-> id, originalUrl |-> url, shortCode |-> code,
                  shortUrl |-> BASE_URL \o <<"/">> \o code, createdAt |-> t])]

ShortenRequest(url, custom, user) ==
  [NoRequest EXCEPT !.kind = "shorten", !.originalUrl = url,
                    !.customShortCode = custom, !.userId = user]

\* `request.customShortCode && request.customShortCode.trim()`
HasCustomCode(custom) == custom # <<>> /\ Trim(custom) # <<>>

\* Shortening calls under way: each may still add a link.
Shortening == {q \in Procs : req[q].kind = "shorten" /\ ~Free(q)}

RejectsCustomCode_Never(validation) == FALSE

\* `if (!validation.isValid)`
RejectsCustomCode(validation) == ~validation.isValid

shortenUrl(p, request) ==
  /\ CanStart(p)
  /\ (nextId - 1) + Cardinality(Shortening) < MaxLinks
  /\ started' = started + 1
  /\ LET formattedUrl == formatUrl(request.originalUrl)
         customCode == Trim(request.customShortCode)
         validation == validateShortCode(customCode)
     IN IF ~isValidUrl(formattedUrl)
        THEN Local(p, "done", request, None, None, 0, Some(Failure(InvalidUrlError)), <<>>)
        ELSE IF HasCustomCode(request.customShortCode)
        THEN IF RejectsCustomCode(validation)
             THEN Local(p, "done", request, None, None, 0,
                        Some(Failure(validation.error)), <<>>)
             ELSE Local(p, "exists", request, None, None, 0, None, <<>>)
        ELSE Local(p, "generate", request, None, None, 0, None, <<>>)
  /\ UNCHANGED <<links, nextId, clock, created, recorded, lost>>

StartShorten(p, url, custom, user) == shortenUrl(p, ShortenRequest(url, custom, user))

AnonymousUserId(t) == "anonymous-" \o ToString(t)

shortenUrlAnonymous(p, url, custom) ==
  shortenUrl(p, ShortenRequest(url, custom, AnonymousUserId(clock)))

CodeTaken_Ignored(exists) == FALSE

\* `if (exists)`
CodeTaken(exists) == exists

\* The existence check of a custom code.
ShortCodeExists(p) ==
  /\ pc[p] = "exists"
  /\ LET customCode == Trim(req[p].customShortCode)
         exists == shortCodeExists(customCode)
         ev == <<"shortCodeExists", IF exists THEN "true" ELSE "false">>
     IN \/ Return(p, CatchShortenError, <<"shortCodeExists", "error">>)
        \/ IF CodeTaken(exists)
           THEN Return(p, Failure(CodeTakenError), ev)
           ELSE Goto(p, "create", None, Some(customCode), 0, ev)
  /\ UNCHANGED <<links, nextId, clock, created, recorded, lost, started>>

\* One attempt of generateUniqueShortCode: a random candidate and its
\* existence check.
GenerateUniqueShortCode(p) ==
  /\ pc[p] = "generate"
  /\ \E candidate \in GenCodes :
       \/ Return(p, CatchGenerationError, <<"shortCodeExists", "error">>)
       \/ /\ ~shortCodeExists(candidate)
          /\ Goto(p, "create", None, Some(candidate), attempts[p],
                  <<"shortCodeExists", "false">>)
       \/ /\ shortCodeExists(candidate)
          /\ IF attempts[p] + 1 >= MaxAttempts
             THEN Local(p, "done", req[p], None, None, attempts[p] + 1,
                        Some(CatchGenerationError),
                        Append(calls[p], <<"shortCodeExists", "true">>))
             ELSE Goto(p, "generate", None, None, attempts[p] + 1,
                       <<"shortCodeExists", "true">>)
  /\ UNCHANGED <<links, nextId, clock, created, recorded, lost, started>>

CreateLinkData(p) ==
  [originalUrl |-> formatUrl(req[p].originalUrl), shortCode |-> The(shortCode[p]),
   userId |-> req[p].userId]

CreateLink(p) ==
  /\ pc[p] = "create"
  /\ \/ /\ Return(p, CatchShortenError, <<"createLink", "fail">>)
        /\ UNCHANGED <<links, nextId, clock, created, recorded, lost>>
     \/ LET l == NewLink(nextId, CreateLinkData(p), clock)
        IN /\ links' = (nextId :> l) @@ links
           /\ created' = (nextId :> l) @@ created
           /\ recorded' = (nextId :> 0) @@ recorded
           /\ lost' = (nextId :> 0) @@ lost
           /\ nextId' = nextId + 1
           /\ clock' = clock + 1
           /\ Return(p, ShortenSuccess(l.id, l.originalUrl, l.shortCode, clock'),
                     <<"createLink", "ok">>)
  /\ UNCHANGED started

\* ------------------------------------------------------- delete and listing

DeleteRequest(id, user) ==
  [NoRequest EXCEPT !.kind = "delete", !.linkId = id, !.userId = user]

ListRequest(user) == [NoRequest EXCEPT !.kind = "list", !.userId = user]

NotOwnerError == "Unauthorized: You can only delete your own links"

DeleteError == "Failed to delete link"

ListError == "Failed to get user links"

Done(d) ==
  [success |-> TRUE, originalUrl |-> None, error |-> None, linkData |-> None,
   data |-> d]

IsOwner_Anyone(l, user) == TRUE

\* `request.auth.uid == resource.data.userId`
IsOwner(l, user) == l.userId = user

StartDelete(p, id, user) ==
  /\ CanStart(p)
  /\ started' = started + 1
  /\ Local(p, "delete", DeleteRequest(id, user), None, None, 0, None, <<>>)
  /\ UNCHANGED <<links, nextId, clock, created, recorded, lost>>

deleteLink(p) ==
  /\ pc[p] = "delete"
  /\ LET id == req[p].linkId
     IN \/ /\ Return(p, Failure(DeleteError), <<"deleteLink", "error">>)
           /\ UNCHANGED links
        \/ /\ id \in DOMAIN links
           /\ ~IsOwner(links[id], req[p].userId)
           /\ Return(p, Failure(NotOwnerError), <<"deleteLink", "NotOwner">>)
           /\ UNCHANGED links
        \/ /\ id \in DOMAIN links
           /\ IsOwner(links[id], req[p].userId)
           /\ links' = [i \in DOMAIN links \ {id} |-> links[i]]
           /\ Return(p, Done(None), <<"deleteLink", "ok">>)
  /\ UNCHANGED <<nextId, clock, created, recorded, lost, started>>

OwnedBy(user) == {links[i] : i \in {j \in DOMAIN links : links[j].userId = user}}

StartList(p, user) ==
  /\ CanStart(p)
  /\ started' = started + 1
  /\ Local(p, "list", ListRequest(user), None, None, 0, None, <<>>)
  /\ UNCHANGED <<links, nextId, clock, created, recorded, lost>>

getUserLinks(p) ==
  /\ pc[p] = "list"
  /\ \/ Return(p, Failure(ListError), <<"getUserLinks", "error">>)
     \/ Return(p, Done(OwnedBy(req[p].userId)), <<"getUserLinks", "ok">>)
  /\ UNCHANGED <<links, nextId, clock, created, recorded, lost, started>>

\* ----------------------------------------------------------- specification

Next ==
  \E p \in Procs :
    \/ \E h \in Handlers, code \in RedirectCodes : StartRedirect(p, h, code)
    \/ Lookup(p)
    \/ UpdateClickStats(p)
    \/ IncrementLinkClicks(p)
    \/ \E url \in InputUrls, custom \in CustomCodes, user \in Users :
         StartShorten(p, url, custom, user)
    \/ \E url \in InputUrls, custom \in CustomCodes : shortenUrlAnonymous(p, url, custom)
    \/ ShortCodeExists(p)
    \/ GenerateUniqueShortCode(p)
    \/ CreateLink(p)
    \/ \E id \in 1..nextId, user \in Users : StartDelete(p, id, user)
    \/ deleteLink(p)
    \/ \E user \in Users : StartList(p, user)
    \/ getUserLinks(p)

Spec == Init /\ [][Next]_vars

\* The shortening service alone, over a wider range of URLs and custom codes.

ShortenUrls ==
  {<<>>, Str1(" "), Str1("h"), <<" ", "h", " ">>, <<"h", " ", "h">>,
   Str2("http://", "h"), <<" ", "https://", "h">>, Str1("http://"),
   Str2("ftp://", "h")}

ShortenCodes == {<<>>, Str1(" "), Str1("a"), <<" ", "a", " ">>, Str2("a", "@"), Admin, LongCode}

ShortenNext ==
  \E p \in Procs :
    \/ \E url \in ShortenUrls, custom \in ShortenCodes :
         StartShorten(p, url, custom, "u1")
    \/ ShortCodeExists(p)
    \/ GenerateUniqueShortCode(p)
    \/ CreateLink(p)

ShortenSpec == Init /\ [][ShortenNext]_vars

\* Short-code validation alone, applied to every short string over a few
\* characters of each kind and to the boundary lengths.

ValidateAlphabet == {"a", "Z", "0", "_", "-", "@", " "}

ValidateCodes ==
  UNION {[1..n -> ValidateAlphabet] : n \in 0..MaxValidateLen}
    \cup {Repeat("a", MaxCodeLength), LongCode, Repeat("@", MaxCodeLength)}
    \cup ReservedWords

ValidateRequest(code) == [NoRequest EXCEPT !.kind = "validate", !.shortCode = code]

\* `isValidShortCodeFormat(code)` and `validateShortCode(code)` on one code.
testShortCodeValidation(p, code) ==
  /\ CanStart(p)
  /\ started' = started + 1
  /\ Local(p, "done", ValidateRequest(code), None, None, 0,
           Some(Done(Some([isValid |-> isValidShortCodeFormat(code),
                           validation |-> validateShortCode(code)]))), <<>>)
  /\ UNCHANGED <<links, nextId, clock, created, recorded, lost>>

ValidateNext == \E p \in Procs, code \in ValidateCodes : testShortCodeValidation(p, code)

ValidateSpec == Init /\ [][ValidateNext]_vars

\* ------------------------------------------------------------------ routing

\* A route path is what `path.split("/")` makes of it: "/login" is
\* <<"", "login">>, "/" is <<"", "">> and "*" is <<"*">>.  A location is the
\* sequence of its segments: "/a/b" is <<"a", "b">> and "/" is <<>>.

isSplat(s) == s = "*"

IsParam(s) == s = ":shortCode"

NonEmpty(s) == s # ""

\* The router's ranking: a static segment counts 10, a parameter 3, an empty
\* segment 1, and a route with a splat loses 2.
RECURSIVE SegmentScores(_)
SegmentScores(segments) ==
  IF segments = <<>> THEN 0
  ELSE (IF isSplat(Head(segments)) THEN 0
        ELSE IF IsParam(Head(segments)) THEN 3
        ELSE IF Head(segments) = "" THEN 1 ELSE 10) + SegmentScores(Tail(segments))

computeScore(path) ==
  Len(path) + (IF \E i \in DOMAIN path : isSplat(path[i]) THEN 0 - 2 ELSE 0)
    + SegmentScores(path)

RECURSIVE matchSegments(_, _)
matchSegments(pattern, location) ==
  IF pattern = <<>> THEN location = <<>>
  ELSE IF isSplat(Head(pattern)) THEN TRUE
  ELSE /\ location # <<>>
       /\ IsParam(Head(pattern)) \/ Head(pattern) = Head(location)
       /\ matchSegments(Tail(pattern), Tail(location))

matchPath(path, location) == matchSegments(SelectSeq(path, NonEmpty), location)

\* The index of the matching route of highest rank (the earlier one on a
\* tie), 0 when none matches.
matchRoutes(routes, location) ==
  LET matching == {i \in DOMAIN routes : matchPath(routes[i].path, location)}
  IN IF matching = {} THEN 0
     ELSE CHOOSE i \in matching :
            \A j \in matching :
              \/ computeScore(routes[i].path) > computeScore(routes[j].path)
              \/ computeScore(routes[i].path) = computeScore(routes[j].path) /\ i <= j

\* The outer <Routes> of AppRoutes.
TopRoutes ==
  <<[path |-> <<"", ":shortCode">>, element |-> "RedirectPage"],
    [path |-> <<"", "*">>, element |-> "Layout"]>>

\* The <Routes> inside the layout element.
NestedRoutes ==
  <<[path |-> <<"", "">>, element |-> "LandingPage"],
    [path |-> <<"", "login">>, element |-> "AuthenticatedLogin"],
    [path |-> <<"", "signup">>, element |-> "AuthenticatedSignUp"],
    [path |-> <<"", "dashboard">>, element |-> "ProtectedRoute"],
    [path |-> <<"*">>, element |-> "NavigateHome"]>>

Element(routes, location) ==
  LET i == matchRoutes(routes, location)
  IN IF i = 0 THEN "none" ELSE routes[i].element

AppRoutes(loading, location) ==
  IF loading THEN "LoadingPage"
  ELSE IF Element(TopRoutes, location) = "Layout" THEN Element(NestedRoutes, location)
  ELSE Element(TopRoutes, location)

RouteSegments == {"login", "signup", "dashboard", "admin", "abc", "a-b", "x"}

Locations == UNION {[1..n -> RouteSegments] : n \in 0..MaxPathSegments}

RouteRequest == [NoRequest EXCEPT !.kind = "route"]

\* The browser shows a location: AppRoutes renders the element it resolves to.
RenderRoute(p, loading, location) ==
  /\ CanStart(p)
  /\ started' = started + 1
  /\ Local(p, "done", RouteRequest, None, None, 0,
           Some(Done(Some([location |-> location, loading |-> loading,
                           element |-> AppRoutes(loading, location)]))), <<>>)
  /\ UNCHANGED <<links, nextId, clock, created, recorded, lost>>

RouteNext ==
  \E p \in Procs, loading \in BOOLEAN, location \in Locations :
    RenderRoute(p, loading, location)

RouteSpec == Init /\ [][RouteNext]_vars

\* ------------------------------------------------------------------ session

\* What a component renders: a view, or a <Navigate> to a location that
\* carries a `from` location in its state.
Shows(view) == [view |-> view, to |-> None, toFrom |-> None]

Navigate(to, from) == [view |-> "Navigate", to |-> Some(to), toFrom |-> from]

ProtectedRoute(currentUser, location) ==
  IF currentUser = None THEN Navigate(<<"login">>, Some(location))
  ELSE Shows("Dashboard")

AuthenticatedLogin(currentUser, from) ==
  IF currentUser # None
  THEN Navigate(IF from # None THEN The(from) ELSE <<"dashboard">>, None)
  ELSE Shows("Login")

AuthenticatedSignUp(currentUser, from) ==
  IF currentUser # None
  THEN Navigate(IF from # None THEN The(from) ELSE <<"dashboard">>, None)
  ELSE Shows("SignUp")

\* The application on screen: the router's location and its state, the
\* AuthProvider's currentUser and loading, and what AppRoutes renders.
App(location, from, currentUser, loading) ==
  LET element == AppRoutes(loading, location)
      rendered ==
        IF element = "ProtectedRoute" THEN ProtectedRoute(currentUser, location)
        ELSE IF element = "AuthenticatedLogin" THEN AuthenticatedLogin(currentUser, from)
        ELSE IF element = "AuthenticatedSignUp" THEN AuthenticatedSignUp(currentUser, from)
        ELSE IF element = "NavigateHome" THEN Navigate(<<>>, None)
        ELSE Shows(element)
  IN [page |-> "app", location |-> location, from |-> from,
      currentUser |-> currentUser, loading |-> loading, element |-> element,
      view |-> rendered.view, to |-> rendered.to, toFrom |-> rendered.toFrom]

\* The browser loads the application at a location: the AuthProvider starts
\* with no user and loading.
OpenLocation(location) ==
  /\ ui' = App(location, None, None, TRUE)
  /\ UNCHANGED <<coreVars, pending>>

\* A link of the application is followed: the location changes, the
\* AuthProvider keeps its state.
FollowLink(location) ==
  /\ ui' = App(location, None, ui.currentUser, ui.loading)
  /\ UNCHANGED <<coreVars, pending>>

\* The callback of onAuthStateChanged: a sign-in, a sign-out, or the first
\* report of the stored session.
AuthStateChanged(user) ==
  /\ ui.loading \/ ui.currentUser # user
  /\ ui' = App(ui.location, ui.from, user, FALSE)
  /\ UNCHANGED <<coreVars, pending>>

\* The effect of a rendered <Navigate replace>.
FollowNavigate ==
  /\ ui.view = "Navigate"
  /\ ui' = App(The(ui.to), ui.toFrom, ui.currentUser, ui.loading)
  /\ UNCHANGED <<coreVars, pending>>

SessionInit ==
  /\ CoreInit
  /\ ui = App(<<>>, None, None, TRUE)
  /\ pending = {}

SessionNext ==
  \/ \E location \in Locations : OpenLocation(location)
  \/ \E location \in Locations : FollowLink(location)
  \/ \E user \in {None} \cup {Some(u) : u \in Users} : AuthStateChanged(user)
  \/ FollowNavigate

SessionSpec == SessionInit /\ [][SessionNext]_vars

\* ------------------------------------------------------------- RedirectPage

\* A store that holds links of two users, as calls of shortenUrl leave it.
SeedData ==
  <<[originalUrl |-> <<"https://", "h">>, shortCode |-> Str1("a"), userId |-> "u1"],
    [originalUrl |-> <<"http://", "h">>, shortCode |-> Str1("b"), userId |-> "u2"],
    [originalUrl |-> <<"https://", "h">>, shortCode |-> Str1("c"), userId |-> "u1"]>>

SeededInit ==
  /\ links = [i \in DOMAIN SeedData |-> NewLink(i, SeedData[i], i)]
  /\ nextId = Len(SeedData) + 1
  /\ clock = Len(SeedData) + 1
  /\ created = links
  /\ recorded = [i \in DOMAIN SeedData |-> 0]
  /\ lost = [i \in DOMAIN SeedData |-> 0]
  /\ pc = [p \in Procs |-> "idle"]
  /\ req = [p \in Procs |-> NoRequest]
  /\ link = [p \in Procs |-> None]
  /\ shortCode = [p \in Procs |-> None]
  /\ attempts = [p \in Procs |-> 0]
  /\ result = [p \in Procs |-> None]
  /\ calls = [p \in Procs |-> <<>>]
  /\ started = 0

\* The `shortCode` of useParams: absent, or a string.
PageParams == {None} \cup {Some(code) : code \in RedirectCodes}

\* `!shortCode`
NoCode(param) == IF param = None THEN TRUE ELSE The(param) = <<>>

\* The component as mounted: no result, loading.  `epoch` is the number of
\* requests started before the mount, `timer` whether the redirect is
\* scheduled, `navigated` and `href` what the browser was sent to.
RedirectPage(param) ==
  [page |-> "redirect", shortCode |-> param, result |-> None, loading |-> TRUE,
   timer |-> FALSE, navigated |-> FALSE, href |-> None, epoch |-> started]

ShouldRedirect_Always(r) == TRUE

\* `redirectResult.success && redirectResult.originalUrl`
ShouldRedirect(r) == r.success /\ r.originalUrl # None

\* What the component shows.
RedirectView ==
  IF ui.loading THEN "Redirecting"
  ELSE IF ui.result # None /\ ShouldRedirect(The(ui.result)) THEN "TakingYouTo"
  ELSE "NotFound"

\* The browser loads /:shortCode, in a slot no earlier page is using.
MountRedirectPage(param) ==
  /\ IF ui.page = "none" THEN TRUE ELSE ~ui.loading /\ ~ui.timer
  /\ started < MaxOps
  /\ ui' = RedirectPage(param)
  /\ UNCHANGED <<coreVars, pending>>

\* The effect, for a missing code.
ProcessRedirectNoCode ==
  /\ ui.page = "redirect" /\ ui.loading /\ NoCode(ui.shortCode)
  /\ ui' = [ui EXCEPT !.result = Some(InvalidCodeResult), !.loading = FALSE]
  /\ UNCHANGED <<coreVars, pending>>

\* The effect, up to the first await of handleRedirectWithAnalytics.
ProcessRedirect(p) ==
  /\ ui.page = "redirect" /\ ui.loading /\ ~NoCode(ui.shortCode)
  /\ started = ui.epoch
  /\ StartRedirect(p, "handleRedirectWithClickTracking", The(ui.shortCode))

\* The effect, after the await: setResult, the timer, setLoading(false).
ProcessRedirectReturns(p) ==
  /\ ui.page = "redirect" /\ ui.loading
  /\ started = ui.epoch + 1
  /\ pc[p] = "done" /\ req[p].kind = "redirect"
  /\ ui' = [ui EXCEPT !.result = result[p], !.loading = FALSE,
                      !.timer = ShouldRedirect(The(result[p]))]
  /\ UNCHANGED <<coreVars, pending>>

\* The timer: safeRedirect sets window.location.href.
SafeRedirect ==
  /\ ui.page = "redirect" /\ ui.timer
  /\ ui' = [ui EXCEPT !.timer = FALSE, !.navigated = TRUE,
                      !.href = The(ui.result).originalUrl]
  /\ UNCHANGED <<coreVars, pending>>

RedirectPageInit ==
  /\ SeededInit
  /\ ui = NoUi
  /\ pending = {}

RedirectPageNext ==
  \/ \E param \in PageParams : MountRedirectPage(param)
  \/ ProcessRedirectNoCode
  \/ ProcessRedirect(1)
  \/ Lookup(1)
  \/ UpdateClickStats(1)
  \/ IncrementLinkClicks(1)
  \/ ProcessRedirectReturns(1)
  \/ SafeRedirect

\* The page's own steps and the lookup always come to run; the two
\* click-tracking calls may take for ever.
RedirectPageSpec ==
  /\ RedirectPageInit
  /\ [][RedirectPageNext]_vars
  /\ WF_vars(ProcessRedirectNoCode)
  /\ WF_vars(ProcessRedirect(1))
  /\ WF_vars(Lookup(1))
  /\ WF_vars(ProcessRedirectReturns(1))
  /\ WF_vars(SafeRedirect)

\* ---------------------------------------------------------------- Dashboard

MaxUiOps == 3

MaxPending == 2

\* A call of the page to the backend: `stage` is "sent" until the backend
\* has served it, and `response` what it then answered.
Call(n, kind, user, id) ==
  [n |-> n, kind |-> kind, user |-> user, linkId |-> id, stage |-> "sent",
   response |-> [ok |-> FALSE, links |-> {}]]

Served(c, ok, ls) == [c EXCEPT !.stage = "served", !.response = [ok |-> ok, links |-> ls]]

LoadError == "Failed to load your links. Please try again."

\* The component with no user: the effect has emptied the list.  `ops`,
\* `asked`, `confirmed`, `issued` and `alerts` count the user's actions, the
\* confirmation dialogs shown, those confirmed, the deleteLink calls made
\* and the alerts shown; `deleted` holds the links whose delete resolved.
Dashboard ==
  [page |-> "dashboard", currentUser |-> None, userLinks |-> {}, isLoading |-> FALSE,
   error |-> None, ops |-> 0, asked |-> 0, confirmed |-> 0, issued |-> 0,
   alerts |-> 0, deleted |-> {}]

\* The list is on screen.
ListShown == ui.currentUser # None /\ ~ui.isLoading /\ ui.error = None

\* loadUserLinks, up to its await.
loadUserLinks(u, user) ==
  /\ Cardinality(pending) < MaxPending
  /\ ui' = [u EXCEPT !.isLoading = TRUE, !.error = None, !.ops = @ + 1]
  /\ pending' = pending \cup {Call(u.ops, "list", user, 0)}

\* The effect on [currentUser].
CurrentUserChanges(user) ==
  /\ ui.ops < MaxUiOps
  /\ ui.currentUser # user
  /\ IF user # None
     THEN loadUserLinks([ui EXCEPT !.currentUser = user], The(user))
     ELSE /\ ui' = [ui EXCEPT !.currentUser = user, !.userLinks = {},
                              !.isLoading = FALSE, !.ops = @ + 1]
          /\ UNCHANGED pending
  /\ UNCHANGED coreVars

\* The refresh button, disabled while loading.
handleRefresh ==
  /\ ui.ops < MaxUiOps
  /\ ui.currentUser # None /\ ~ui.isLoading
  /\ loadUserLinks(ui, The(ui.currentUser))
  /\ UNCHANGED coreVars

\* The backend serves getUserLinks.
ServeGetUserLinks(c) ==
  /\ c.kind = "list" /\ c.stage = "sent"
  /\ \E r \in {Served(c, TRUE, OwnedBy(c.user)), Served(c, FALSE, {})} :
       pending' = (pending \ {c}) \cup {r}
  /\ UNCHANGED <<coreVars, ui>>

\* loadUserLinks, after its await.
LoadUserLinksReturns(c) ==
  /\ c.kind = "list" /\ c.stage = "served"
  /\ ui' = IF c.response.ok
           THEN [ui EXCEPT !.userLinks = c.response.links, !.isLoading = FALSE]
           ELSE [ui EXCEPT !.error = Some(LoadError), !.isLoading = FALSE]
  /\ pending' = pending \ {c}
  /\ UNCHANGED coreVars

DeleteConfirmed_Always(confirm) == TRUE

\* `window.confirm(...)`
DeleteConfirmed(confirm) == confirm

\* handleDelete for a link of the list on screen, up to its await.
handleDelete(l, confirm) ==
  /\ ui.ops < MaxUiOps
  /\ ListShown /\ l \in ui.userLinks
  /\ IF DeleteConfirmed(confirm)
     THEN /\ Cardinality(pending) < MaxPending
          /\ ui' = [ui EXCEPT !.ops = @ + 1, !.asked = @ + 1, !.issued = @ + 1,
                              !.confirmed = @ + (IF confirm THEN 1 ELSE 0)]
          /\ pending' = pending \cup {Call(ui.ops, "delete", The(ui.currentUser), l.id)}
     ELSE /\ ui' = [ui EXCEPT !.ops = @ + 1, !.asked = @ + 1]
          /\ UNCHANGED pending
  /\ UNCHANGED coreVars

\* The backend serves deleteLink: the owner's link is removed.
ServeDeleteLink(c) ==
  /\ c.kind = "delete" /\ c.stage = "sent"
  /\ \/ /\ pending' = (pending \ {c}) \cup {Served(c, FALSE, {})}
        /\ UNCHANGED links
     \/ /\ c.linkId \in DOMAIN links
        /\ IsOwner(links[c.linkId], c.user)
        /\ links' = [i \in DOMAIN links \ {c.linkId} |-> links[i]]
        /\ pending' = (pending \ {c}) \cup {Served(c, TRUE, {})}
  /\ UNCHANGED <<nextId, clock, created, recorded, lost, pc, req, link, shortCode,
                 attempts, result, calls, started, ui>>

\* `prev.filter(link => link.id !== linkId)`
RemoveFromList(ls, id) == {l \in ls : l.id # id}

\* handleDelete, after its await.
HandleDeleteReturns(c) ==
  /\ c.kind = "delete" /\ c.stage = "served"
  /\ ui' = IF c.response.ok
           THEN [ui EXCEPT !.userLinks = RemoveFromList(@, c.linkId),
                           !.deleted = @ \cup {c.linkId}]
           ELSE [ui EXCEPT !.alerts = @ + 1]
  /\ pending' = pending \ {c}
  /\ UNCHANGED coreVars

DashboardInit ==
  /\ SeededInit
  /\ ui = Dashboard
  /\ pending = {}

DashboardNext ==
  \/ \E user \in {None} \cup {Some(u) : u \in Users} : CurrentUserChanges(user)
  \/ handleRefresh
  \/ \E c \in pending : ServeGetUserLinks(c)
  \/ \E c \in pending : LoadUserLinksReturns(c)
  \/ \E l \in ui.userLinks, confirm \in BOOLEAN : handleDelete(l, confirm)
  \/ \E c \in pending : ServeDeleteLink(c)
  \/ \E c \in pending : HandleDeleteReturns(c)

DashboardSpec == DashboardInit /\ [][DashboardNext]_vars

\* ----------------------------------------------------------- security rules

MaxClicks == 2

\* Documents of the links collection as a request can hold them: complete,
\* with a lastClickedAt, or lacking createdAt.
RuleDocs ==
  LET complete ==
        [originalUrl : {<<"https://", "h">>, <<"http://", "h">>}, shortCode : {Str1("a")},
         userId : Users, createdAt : {1}, clicks : 0..MaxClicks]
  IN complete
       \cup {[originalUrl |-> d.originalUrl, shortCode |-> d.shortCode,
              userId |-> d.userId, createdAt |-> d.createdAt, clicks |-> d.clicks,
              lastClickedAt |-> 2] : d \in complete}
       \cup {[originalUrl |-> d.originalUrl, shortCode |-> d.shortCode,
              userId |-> d.userId, clicks |-> d.clicks] : d \in complete}

\* The values of the model all have the type the rules ask for, so the
\* `is string` and `is number` tests hold of every key that is present.
validateLinkData(data) ==
  /\ {"originalUrl", "shortCode", "userId", "createdAt", "clicks"} \subseteq DOMAIN data
  /\ data.clicks = 0

onlyUpdatingClicks(newData, oldData) ==
  LET affectedKeys ==
        {k \in DOMAIN newData \cup DOMAIN oldData :
           IF k \in DOMAIN newData /\ k \in DOMAIN oldData
           THEN newData[k] # oldData[k] ELSE TRUE}
  IN affectedKeys \subseteq {"clicks"} /\ newData.clicks >= oldData.clicks

\* `allow create`: `resource` is the stored document, which a create does
\* not have; the evaluation of resource.data is then an error, and an error
\* denies the request.
AllowCreate(auth, resource, data) ==
  /\ auth # None
  /\ IF resource = None THEN FALSE ELSE The(auth) = The(resource).userId
  /\ validateLinkData(data)

\* `allow update`
AllowUpdate(auth, resource, data) ==
  /\ auth # None
  /\ IF resource = None THEN FALSE ELSE The(auth) = The(resource).userId
  /\ onlyUpdatingClicks(data, The(resource))

\* The rules decide one write: a create has no stored document, an update one.
EvaluateRule(method, auth, resource, data) ==
  /\ ui = NoUi
  /\ (method = "create") = (resource = None)
  /\ ui' = [page |-> "rules", method |-> method, auth |-> auth, resource |-> resource,
            data |-> data,
            allowed |-> IF method = "create" THEN AllowCreate(auth, resource, data)
                        ELSE AllowUpdate(auth, resource, data)]
  /\ UNCHANGED <<coreVars, pending>>

RulesNext ==
  \E method \in {"create", "update"}, auth \in {None} \cup {Some(u) : u \in Users},
     resource \in {None} \cup {Some(d) : d \in RuleDocs}, data \in RuleDocs :
    EvaluateRule(method, auth, resource, data)

RulesSpec == Init /\ [][RulesNext]_vars

\* -------------------------------------------------------------- LandingPage

\* The component as mounted.  `outcome` records how the last submission
\* ended ("none" before the first, "pending" while it runs) and `epoch` the
\* number of requests started before it.
LandingPage(currentUser) ==
  [page |-> "landing", currentUser |-> currentUser, url |-> <<>>,
   customShortCode |-> <<>>, result |-> None, isLoading |-> FALSE, error |-> "",
   outcome |-> "none", epoch |-> 0]

\* The two inputs, disabled while loading.
EditInputs(url, custom) ==
  /\ ui.page = "landing" /\ ~ui.isLoading
  /\ ui' = [ui EXCEPT !.url = url, !.customShortCode = custom]
  /\ UNCHANGED <<coreVars, pending>>

\* handleShorten up to the try; the button is disabled while loading and
\* for a blank URL.
handleShorten ==
  /\ ui.page = "landing" /\ ~ui.isLoading
  /\ Trim(ui.url) # <<>>
  /\ started < MaxOps
  /\ ui' = [ui EXCEPT !.isLoading = TRUE, !.error = "", !.result = None,
                      !.outcome = "pending", !.epoch = started]
  /\ UNCHANGED <<coreVars, pending>>

\* The call of shortenUrl or shortenUrlAnonymous, up to its first await.
CallShortenUrl(p) ==
  /\ ui.page = "landing" /\ ui.isLoading
  /\ started = ui.epoch
  /\ IF ui.currentUser # None
     THEN shortenUrl(p, ShortenRequest(ui.url, Trim(ui.customShortCode),
                                       The(ui.currentUser)))
     ELSE shortenUrlAnonymous(p, ui.url, Trim(ui.customShortCode))

ShortenSucceeded_Always(response) == TRUE

\* `response.success && response.data`
ShortenSucceeded(response) == response.success /\ response.data # None

\* handleShorten after the await, and the finally.
HandleShortenReturns(p) ==
  /\ ui.page = "landing" /\ ui.isLoading
  /\ started = ui.epoch + 1
  /\ pc[p] = "done" /\ req[p].kind = "shorten"
  /\ LET response == The(result[p])
     IN ui' = IF ShortenSucceeded(response)
              THEN [ui EXCEPT !.result = Some(response), !.url = <<>>,
                              !.customShortCode = <<>>, !.isLoading = FALSE,
                              !.outcome = IF response.success THEN "success"
                                          ELSE "failure"]
              ELSE [ui EXCEPT !.error = IF response.error # None
                                        THEN The(response.error)
                                        ELSE "Failed to shorten URL",
                              !.isLoading = FALSE, !.outcome = "failure"]
  /\ UNCHANGED <<coreVars, pending>>

\* The catch of handleShorten, and the finally: the call rejected.
HandleShortenCatches(p) ==
  /\ ui.page = "landing" /\ ui.isLoading
  /\ started = ui.epoch + 1
  /\ pc[p] = "done" /\ req[p].kind = "shorten"
  /\ ui' = [ui EXCEPT !.error = UnexpectedError, !.isLoading = FALSE,
                      !.outcome = "thrown"]
  /\ UNCHANGED <<coreVars, pending>>

LandingInit ==
  /\ CoreInit
  /\ ui \in {LandingPage(None), LandingPage(Some("u1"))}
  /\ pending = {}

LandingNext ==
  \/ \E url \in {<<>>, Str1("h"), <<" ", "h", " ">>},
        custom \in {<<>>, Str1("a"), <<" ", "a", " ">>, Str2("a", "@")} :
       EditInputs(url, custom)
  \/ handleShorten
  \/ CallShortenUrl(1)
  \/ ShortCodeExists(1)
  \/ GenerateUniqueShortCode(1)
  \/ CreateLink(1)
  \/ HandleShortenReturns(1)
  \/ HandleShortenCatches(1)

LandingSpec == LandingInit /\ [][LandingNext]_vars

\* ------------------------------------------------------------------- claims

Redirecting(p) == req[p].kind = "redirect"

Finished(p) == pc[p] = "done"

Found(p) == link[p] # None

Events(p, name) == {i \in DOMAIN calls[p] : calls[p][i][1] = name}

Outcomes(p, name) == {calls[p][i][2] : i \in Events(p, name)}

Tracked(p) == Events(p, "updateClickStats") \cup Events(p, "incrementLinkClicks")

AllSpaces(code) == \A i \in 1..Len(code) : code[i] = " "

\* C1: in both redirect handlers the fallback incrementLinkClicks runs if and
\* only if the primary updateClickStats failed: never after a primary that
\* succeeded, and exactly once, right after the primary, when it failed.
C1_FallbackIffPrimaryFailed ==
  \A p \in Procs :
    Redirecting(p) =>
      LET primary == Events(p, "updateClickStats")
          fallback == Events(p, "incrementLinkClicks")
      IN /\ Cardinality(primary) <= 1
         /\ Cardinality(fallback) <= 1
         /\ \A i \in fallback :
              i > 1 /\ (i - 1) \in primary /\ calls[p][i - 1][2] # "ok"
         /\ (Finished(p) /\ Found(p)) =>
              /\ Cardinality(primary) = 1
              /\ ("ok" \notin Outcomes(p, "updateClickStats")) => Cardinality(fallback) = 1

C1_Witness ==
  \E p \in Procs :
    /\ Redirecting(p) /\ Finished(p) /\ Found(p)
    /\ Outcomes(p, "updateClickStats") = {"fail"}
    /\ Cardinality(Events(p, "incrementLinkClicks")) = 1

\* C2: whenever the lookup returned a link the redirect succeeds with the
\* stored link's originalUrl, whatever became of the tracking writes.
C2_TrackingNeverFailsRedirect ==
  \A p \in Procs :
    (Redirecting(p) /\ Finished(p) /\ Found(p)) =>
      LET r == The(result[p])
      IN /\ r.success
         /\ r.error = None
         /\ r.originalUrl = Some(created[The(link[p]).id].originalUrl)

C2_Witness ==
  \E p \in Procs :
    /\ Redirecting(p) /\ Finished(p) /\ Found(p)
    /\ Outcomes(p, "updateClickStats") = {"fail"}
    /\ Outcomes(p, "incrementLinkClicks") = {"fail"}
    /\ The(result[p]).success

C4_UniqueShortCodes ==
  \A i, j \in DOMAIN links : i # j => links[i].shortCode # links[j].shortCode

\* C5: a redirect for a non-blank code that matches no stored link returns
\* {success: false, error: 'Link not found'} without an originalUrl, makes no
\* click-tracking call and leaves every stored link unchanged.
C5_NotFoundState ==
  \A p \in Procs :
    (Redirecting(p) /\ "null" \in Outcomes(p, "getLinkByShortCode")) =>
      /\ Finished(p)
      /\ The(result[p]).success = FALSE
      /\ The(result[p]).error = Some("Link not found")
      /\ The(result[p]).originalUrl = None
      /\ Tracked(p) = {}

\* The steps of a redirect that has found no link: its start and its lookup.
C5_NotFoundStep ==
  \A p \in Procs :
    (\/ CanStart(p) /\ started' # started /\ req'[p].kind = "redirect"
     \/ Redirecting(p) /\ ~Free(p) /\ calls'[p] # calls[p] /\ link'[p] = None) =>
      links' = links

C5_NotFound == []C5_NotFoundState /\ [][C5_NotFoundStep]_vars

C5_Witness ==
  \E p \in Procs :
    /\ Redirecting(p) /\ Finished(p)
    /\ calls[p] = <<<<"getLinkByShortCode", "null">>>>
    /\ links # <<>>

\* C6: a redirect whose code is empty or only whitespace returns
\* {success: false, error: 'Invalid short code'} with no repository lookup and
\* no click-tracking call.
C6_BlankCodeInvalid ==
  \A p \in Procs :
    (Redirecting(p) /\ AllSpaces(req[p].shortCode)) =>
      /\ Finished(p)
      /\ The(result[p]).success = FALSE
      /\ The(result[p]).error = Some("Invalid short code")
      /\ calls[p] = <<>>

C6_Witness ==
  \E p \in Procs :
    Redirecting(p) /\ Finished(p) /\ req[p].shortCode = Str1(" ") /\ links # <<>>

\* C7: a redirect whose code violates the short-code format (a character
\* outside [A-Za-z0-9_-], or more than 50 characters) ends in InvalidCode and
\* issues no repository read.
C7_FormatCheckedBeforeLookup ==
  \A p \in Procs :
    (Redirecting(p) /\ ~isValidShortCodeFormat(req[p].shortCode)) =>
      /\ pc[p] # "lookup"
      /\ Events(p, "getLinkByShortCode") = {}
      /\ Finished(p) => The(result[p]).error = Some("Invalid short code")

\* C8: on a successful redirect linkData.clicks is the clicks value the lookup
\* read plus one, whatever became of the tracking writes, and id, originalUrl
\* and shortCode are those of the looked-up link.
C8_OptimisticClicks ==
  \A p \in Procs :
    (Redirecting(p) /\ Finished(p) /\ The(result[p]).success) =>
      LET d == The(The(result[p]).linkData)
          l == The(link[p])
      IN /\ d.clicks = l.clicks + 1
         /\ d.id = l.id
         /\ d.originalUrl = created[l.id].originalUrl
         /\ d.shortCode = created[l.id].shortCode
         /\ d.shortCode = Trim(req[p].shortCode)

\* Both tracking writes failed on a link that had been clicked before: the
\* result shows one click more than the store holds.
C8_Witness ==
  \E p \in Procs :
    /\ Redirecting(p) /\ Finished(p) /\ The(result[p]).success
    /\ Outcomes(p, "updateClickStats") = {"fail"}
    /\ Outcomes(p, "incrementLinkClicks") = {"fail"}
    /\ The(link[p]).id \in DOMAIN links
    /\ links[The(link[p]).id].clicks = 1
    /\ The(The(result[p]).linkData).clicks = 2

\* C9: when the repository lookup itself fails the handler returns the generic
\* error result, issues no click-tracking call and does not retry the lookup.
C9_LookupErrorIsGeneric ==
  \A p \in Procs :
    (Redirecting(p) /\ "error" \in Outcomes(p, "getLinkByShortCode")) =>
      /\ Finished(p)
      /\ The(result[p]).success = FALSE
      /\ The(result[p]).error = Some("An error occurred while processing the redirect")
      /\ calls[p] = <<<<"getLinkByShortCode", "error">>>>

C9_Witness ==
  \E p \in Procs :
    /\ Redirecting(p) /\ Finished(p)
    /\ calls[p] = <<<<"getLinkByShortCode", "error">>>>
    /\ shortCodeExists(Trim(req[p].shortCode))

\* C10: every stored link's clicks is a non-negative integer, 0 right after
\* creation, and never decreases across shorten, redirect, list and delete.
C10_ClicksState == \A id \in DOMAIN links : links[id].clicks \in Nat

C10_ClicksStep ==
  /\ \A id \in DOMAIN links \cap DOMAIN links' : links'[id].clicks >= links[id].clicks
  /\ \A id \in DOMAIN links' \ DOMAIN links : links'[id].clicks = 0

C10_ClicksMonotonic == []C10_ClicksState /\ [][C10_ClicksStep]_vars

C10_Witness ==
  /\ \E id \in DOMAIN links : links[id].clicks = 2
  /\ \E p \in Procs : req[p].kind = "delete" /\ Finished(p)

\* ---------------------------------------------------------------------------

Shortens(p) == req[p].kind = "shorten"

Custom(p) == HasCustomCode(req[p].customShortCode)

\* C11: shorten with a custom code that is already stored fails with the
\* code-taken error, never calls createLink, and leaves the stored links as
\* they are.
C11_TakenState ==
  \A p \in Procs :
    (Shortens(p) /\ Custom(p) /\ "true" \in Outcomes(p, "shortCodeExists")) =>
      /\ Finished(p)
      /\ The(result[p]).success = FALSE
      /\ The(result[p]).error = Some(CodeTakenError)
      /\ calls[p] = <<<<"shortCodeExists", "true">>>>

C11_TakenStep ==
  \A p \in Procs :
    (/\ Shortens(p) /\ Custom(p) /\ pc[p] = "exists"
     /\ shortCodeExists(Trim(req[p].customShortCode))
     /\ calls'[p] # calls[p]) => links' = links

C11_CodeTaken == []C11_TakenState /\ [][C11_TakenStep]_vars

C11_Witness ==
  \E p \in Procs :
    /\ Shortens(p) /\ Finished(p)
    /\ calls[p] = <<<<"shortCodeExists", "true">>>>
    /\ \E id \in MatchingIds(Trim(req[p].customShortCode)) : links[id].userId # req[p].userId

UrlAccepted(p) == isValidUrl(formatUrl(req[p].originalUrl))

\* C12: shorten with a custom code that validateShortCode rejects (bad format,
\* too long, or a reserved word such as 'admin') returns a failure carrying the
\* validation error, performs neither the existence check nor createLink, and
\* leaves the store unchanged.
C12_RejectedState ==
  \A p \in Procs :
    (Shortens(p) /\ UrlAccepted(p) /\ Custom(p)) =>
      LET code == Trim(req[p].customShortCode)
      IN /\ ~validateShortCode(code).isValid =>
              /\ Finished(p)
              /\ The(result[p]).success = FALSE
              /\ The(result[p]).error = Some(validateShortCode(code).error)
              /\ calls[p] = <<>>
         /\ code \in {Admin, LongCode, Str2("a", "@")} =>
              /\ Finished(p)
              /\ The(result[p]).success = FALSE
              /\ The(result[p]).error \notin {None, Some(CodeTakenError), Some(UnexpectedError)}
              /\ calls[p] = <<>>

C12_RejectedStep ==
  \A p \in Procs :
    (/\ started' # started /\ CanStart(p) /\ req'[p].kind = "shorten"
     /\ ~validateShortCode(Trim(req'[p].customShortCode)).isValid) =>
      /\ links' = links
      /\ nextId' = nextId

C12_InvalidCustomCode == []C12_RejectedState /\ [][C12_RejectedStep]_vars

C12_Witness ==
  \E p \in Procs :
    /\ Shortens(p) /\ Finished(p) /\ UrlAccepted(p)
    /\ req[p].customShortCode = Admin
    /\ The(result[p]).error = Some("This short code is reserved")
    /\ links # <<>>

\* The input, trimmed, starts with a scheme that is neither http nor https.
OtherScheme(url) ==
  LET t == Trim(url)
  IN t # <<>> /\ Head(t) \in SchemeTokens \ {"http://", "https://"}

\* C13: shorten fails with the invalid-URL error, with no backend call at all,
\* for every input that is empty or is not an absolute http/https URL; stated
\* here for the empty input, the blank input and an input carrying another
\* scheme ('ftp://example.com').
C13_InvalidUrlRejected ==
  \A p \in Procs :
    (/\ Shortens(p)
     /\ \/ Trim(req[p].originalUrl) = <<>>
        \/ OtherScheme(req[p].originalUrl)) =>
      /\ Finished(p)
      /\ The(result[p]).success = FALSE
      /\ The(result[p]).error = Some(InvalidUrlError)
      /\ calls[p] = <<>>

Suffix(s, n) == SubSeq(s, Len(s) - n + 1, Len(s))

\* Every backend call of the request went through: no rejection, no collision.
BackendWentWell(p) ==
  \A i \in DOMAIN calls[p] : calls[p][i][2] \in {"false", "ok"}

HasScheme(url) == url # <<>> /\ Head(url) \in SchemeTokens

\* The input normalised as described: trimmed, 'https://' prepended exactly
\* when it carries no scheme.
Normalized(url) ==
  LET t == Trim(url) IN IF HasScheme(t) THEN t ELSE <<"https://">> \o t

\* C15: shorten normalises its input before validating and storing it:
\* surrounding whitespace is removed and 'https://' is prepended exactly when
\* the input carries no scheme; the originalUrl returned is the one persisted.
C15_StoredUrlNormalized ==
  \A p \in Procs :
    (Shortens(p) /\ Finished(p) /\ The(result[p]).success) =>
      LET d == The(The(result[p]).data)
      IN /\ d.id \in DOMAIN created
         /\ created[d.id].originalUrl = Normalized(req[p].originalUrl)
         /\ d.originalUrl = created[d.id].originalUrl

\* C16: when createLink fails, shorten returns the generic failure instead of
\* throwing and the store holds no new or partial link for the request; a
\* success is returned only after createLink has returned an id.
C16_CreateState ==
  \A p \in Procs :
    Shortens(p) =>
      /\ <<"createLink", "fail">> \in {calls[p][i] : i \in DOMAIN calls[p]} =>
           /\ Finished(p)
           /\ The(result[p]).success = FALSE
           /\ The(result[p]).error = Some(UnexpectedError)
           /\ The(result[p]).data = None
           /\ calls[p][Len(calls[p])] = <<"createLink", "fail">>
      /\ (Finished(p) /\ The(result[p]).success) =>
           LET d == The(The(result[p]).data)
           IN /\ calls[p][Len(calls[p])] = <<"createLink", "ok">>
              /\ d.id \in DOMAIN created
              /\ created[d.id] =
                   [id |-> d.id, originalUrl |-> d.originalUrl, shortCode |-> d.shortCode,
                    createdAt |-> created[d.id].createdAt, clicks |-> 0,
                    lastClickedAt |-> NoTime, userId |-> req[p].userId]

C16_CreateStep ==
  \A p \in Procs :
    (/\ pc[p] = "create"
     /\ calls'[p] = Append(calls[p], <<"createLink", "fail">>)) =>
      /\ links' = links
      /\ nextId' = nextId
      /\ created' = created

C16_CreateFailure == []C16_CreateState /\ [][C16_CreateStep]_vars

C16_Witness ==
  \E p \in Procs :
    /\ Shortens(p) /\ Finished(p)
    /\ calls[p] = <<<<"shortCodeExists", "false">>, <<"createLink", "fail">>>>
    /\ ~shortCodeExists(The(shortCode[p]))
    /\ links # <<>>

Deletes(p) == req[p].kind = "delete"

\* C17: deleteLink(id, requestingUserId) removes the link only when the stored
\* userId equals requestingUserId; otherwise it fails with NotOwner and the
\* document is unchanged and still resolvable by its short code.
C17_DeleteState ==
  \A p \in Procs :
    (Deletes(p) /\ Finished(p)) =>
      LET id == req[p].linkId
          r == The(result[p])
      IN /\ r.success =>
              /\ id \in DOMAIN created
              /\ created[id].userId = req[p].userId
              /\ id \notin DOMAIN links
         /\ "NotOwner" \in Outcomes(p, "deleteLink") =>
              /\ r.success = FALSE
              /\ r.error = Some(NotOwnerError)
              /\ id \in DOMAIN links
              /\ links[id].userId # req[p].userId
              /\ id \in MatchingIds(created[id].shortCode)
         /\ (id \in DOMAIN links /\ links[id].userId # req[p].userId) =>
              /\ r.success = FALSE
              /\ Outcomes(p, "deleteLink") \subseteq {"NotOwner", "error"}

C17_DeleteStep ==
  \A p \in Procs :
    (pc[p] = "delete" /\ calls'[p] # calls[p]) =>
      LET id == req[p].linkId
      IN IF id \in DOMAIN links /\ links[id].userId = req[p].userId
         THEN \/ links' = links
              \/ links' = [i \in DOMAIN links \ {id} |-> links[i]]
         ELSE links' = links

C17_OwnerOnlyDelete == []C17_DeleteState /\ [][C17_DeleteStep]_vars

C17_Witness ==
  \E p \in Procs :
    /\ Deletes(p) /\ Finished(p)
    /\ calls[p] = <<<<"deleteLink", "NotOwner">>>>
    /\ req[p].linkId \in DOMAIN links
    /\ links[req[p].linkId].clicks = 1
    /\ req[p].linkId \in MatchingIds(links[req[p].linkId].shortCode)

Generates(p) == Shortens(p) /\ ~Custom(p) /\ UrlAccepted(p)

\* C18: generateUniqueShortCode makes at most a fixed number of attempts, each
\* with one existence check, returns the first candidate reported absent, and
\* fails when every attempt collided; shorten turns that failure into the
\* 'Failed to generate a unique short code' result without calling createLink.
C18_GenerateState ==
  \A p \in Procs :
    Generates(p) =>
      LET checks == Events(p, "shortCodeExists")
          collided == {i \in checks : calls[p][i][2] = "true"}
      IN /\ Cardinality(checks) <= MaxAttempts
         /\ attempts[p] = Cardinality(collided)
         /\ checks = 1..Cardinality(checks)
         /\ \A i \in checks : calls[p][i][2] # "true" => i = Cardinality(checks)
         /\ pc[p] = "generate" => Cardinality(collided) < MaxAttempts
         /\ (Cardinality(collided) = MaxAttempts \/ "error" \in Outcomes(p, "shortCodeExists")) =>
              /\ Finished(p)
              /\ The(result[p]).success = FALSE
              /\ The(result[p]).error = Some(GenerationError)
              /\ Events(p, "createLink") = {}
         /\ Events(p, "createLink") # {} => calls[p][Len(calls[p]) - 1] = <<"shortCodeExists", "false">>

C18_GenerateStep ==
  \A p \in Procs :
    (Generates(p) /\ pc[p] = "generate" /\ pc'[p] = "create") =>
      /\ shortCode'[p] # None
      /\ ~shortCodeExists(The(shortCode'[p]))

C18_GenerationBounded == []C18_GenerateState /\ [][C18_GenerateStep]_vars

C18_Witness ==
  \E p \in Procs :
    /\ Generates(p) /\ Finished(p)
    /\ Len(calls[p]) = MaxAttempts
    /\ \A i \in DOMAIN calls[p] : calls[p][i] = <<"shortCodeExists", "true">>
    /\ The(result[p]).error = Some(GenerationError)

CodeAlphabet == Lower \cup Upper \cup Digits \cup {"_", "-"}

\* C19: short-code format validation reports invalid for every string that is
\* empty, longer than 50 characters or holds a character outside
\* [A-Za-z0-9_-], and valid for every string of 1 to 50 characters of that
\* set; validateShortCode rejects all of the former and reserved words too.
C19_FormatValidation ==
  \A p \in Procs :
    (req[p].kind = "validate" /\ Finished(p)) =>
      LET code == req[p].shortCode
          v == The(The(result[p]).data)
          wellFormed == /\ Len(code) >= 1
                        /\ Len(code) <= 50
                        /\ \A i \in 1..Len(code) : code[i] \in CodeAlphabet
      IN /\ v.isValid = wellFormed
         /\ ~wellFormed => ~v.validation.isValid
         /\ code \in ReservedWords => ~v.validation.isValid
         /\ ~v.validation.isValid => v.validation.error # ""

C19_Witness ==
  \E p \in Procs :
    /\ req[p].kind = "validate" /\ Finished(p)
    /\ req[p].shortCode = <<"a", "-", "@">>
    /\ ~The(The(result[p]).data).isValid

NamedPages ==
  [login |-> "AuthenticatedLogin", signup |-> "AuthenticatedSignUp",
   dashboard |-> "ProtectedRoute"]

\* C20: the named routes have priority over the short-code route: '/',
\* '/login', '/signup' and '/dashboard' resolve to their own pages and never
\* to the redirect page; only other single-segment paths are short codes.
C20_NamedRoutesFirst ==
  \A p \in Procs :
    (req[p].kind = "route" /\ Finished(p)) =>
      LET v == The(The(result[p]).data)
      IN ~v.loading =>
           /\ v.location = <<>> => v.element = "LandingPage"
           /\ \A name \in DOMAIN NamedPages :
                v.location = <<name>> => v.element = NamedPages[name]
           /\ v.element = "RedirectPage" =>
                Len(v.location) = 1 /\ v.location[1] \notin DOMAIN NamedPages

\* ---------------------------------------------------------------------- C21

OnDashboard == ui.location = <<"dashboard">>

OnLoginOrSignUp == ui.location \in {<<"login">>, <<"signup">>}

\* C21: the dashboard is rendered only for an authenticated user; the
\* application at /dashboard without a user renders a navigation to /login
\* that carries /dashboard, and the application at /login or /signup with a
\* user renders a navigation to the carried location, or to /dashboard when
\* none was carried.
C21_DashboardProtected ==
  /\ ui.view = "Dashboard" => ui.currentUser # None
  /\ OnDashboard /\ ~ui.loading /\ ui.currentUser = None
       => /\ ui.view = "Navigate"
          /\ ui.to = Some(<<"login">>)
          /\ ui.toFrom = Some(<<"dashboard">>)
  /\ OnLoginOrSignUp /\ ~ui.loading /\ ui.currentUser # None
       => /\ ui.view = "Navigate"
          /\ ui.to = (IF ui.from # None THEN ui.from ELSE Some(<<"dashboard">>))

\* ---------------------------------------------------------------------- C22

Tracking(p) == Redirecting(p) /\ pc[p] \in {"primary", "fallback"}

ReturnedSuccess(p) ==
  Redirecting(p) /\ Finished(p) /\ result[p] # None /\ The(result[p]).success

OnRedirectPage == ui.page = "redirect"

\* The browser has left for a URL.
Navigated == IF OnRedirectPage THEN ui.navigated ELSE FALSE

\* C22: once the short code of the page has resolved to a link, the handler
\* returns its success result and the page navigates to the original URL,
\* whether or not the click-tracking calls ever complete.
C22_TrackingDoesNotBlock ==
  /\ Tracking(1) ~> ReturnedSuccess(1)
  /\ Tracking(1) ~> Navigated

\* ---------------------------------------------------------------------- C28

PageResult == The(ui.result)

\* C28: the page schedules or performs a navigation only when the handler
\* has returned a success result with an originalUrl, and navigates to that
\* URL; with a missing code or a result that is no success the page shows
\* the not-found view, loading false, and neither schedules nor performs a
\* navigation.
C28_NavigatesOnlyOnSuccess ==
  OnRedirectPage =>
    /\ ui.timer \/ ui.navigated
         => /\ ui.result # None /\ ui.result = result[1] /\ ReturnedSuccess(1)
            /\ PageResult.success /\ PageResult.originalUrl # None
    /\ ui.navigated => ui.href = PageResult.originalUrl
    /\ ui.result # None => ~ui.loading
    /\ (ui.result # None /\ ~PageResult.success)
         => RedirectView = "NotFound" /\ ~ui.timer /\ ~ui.navigated
    /\ NoCode(ui.shortCode)
         => /\ ~ui.timer /\ ~ui.navigated
            /\ ui.result # None => ~PageResult.success

C28_Witness ==
  /\ OnRedirectPage /\ ui.navigated
  /\ ui.href = Some(<<"https://", "h">>)

\* ---------------------------------------------------------------------- C23

OnDashboardPage == ui.page = "dashboard"

\* C23: every link the dashboard holds in its list belongs to the user who
\* is signed in.
C23_UserIsolation ==
  OnDashboardPage =>
    \A l \in ui.userLinks : ui.currentUser # None /\ l.userId = The(ui.currentUser)

\* ---------------------------------------------------------------------- C24

\* The delete call `c` resolves in this step.
DeleteResolves(c) ==
  c.kind = "delete" /\ c.stage = "served" /\ c.response.ok /\ c \notin pending'

\* The delete call `c` rejects in this step.
DeleteRejects(c) ==
  c.kind = "delete" /\ c.stage = "served" /\ ~c.response.ok /\ c \notin pending'

C24_DeletedState ==
  (OnDashboardPage /\ ListShown) => \A l \in ui.userLinks : l.id \notin ui.deleted

C24_DeletedStep ==
  \A c \in pending :
    DeleteResolves(c) => ui'.userLinks = {l \in ui.userLinks : l.id # c.linkId}

\* C24: when a confirmed delete resolves, the link leaves the list and the
\* other links stay, and the list on screen never shows a link whose delete
\* has resolved, whatever refresh was in flight.
C24_DeleteRemovesFromList == []C24_DeletedState /\ [][C24_DeletedStep]_vars

\* ---------------------------------------------------------------------- C25

C25_CancelState == OnDashboardPage => ui.issued = ui.confirmed

C25_CancelStep ==
  (ui'.asked = ui.asked + 1 /\ ui'.confirmed = ui.confirmed)
    => pending' = pending /\ links' = links /\ ui'.userLinks = ui.userLinks

C25_FailureStep ==
  \A c \in pending :
    DeleteRejects(c) => ui'.userLinks = ui.userLinks /\ ui'.alerts = ui.alerts + 1

\* C25: a delete cancelled at the confirmation dialog makes no deleteLink
\* call and changes nothing, and a delete whose call fails leaves the list as
\* it was and shows an alert.
C25_CancelOrFailureKeepsList ==
  []C25_CancelState /\ [][C25_CancelStep /\ C25_FailureStep]_vars

C25_Witness ==
  /\ OnDashboardPage /\ ui.alerts > 0 /\ ui.asked > ui.confirmed
  /\ ui.userLinks # {}

\* ---------------------------------------------------------------------- C26

RuleDecided(method) == IF ui.page = "rules" THEN ui.method = method ELSE FALSE

OwnValidLink ==
  /\ ui.auth # None
  /\ "userId" \in DOMAIN ui.data /\ ui.data.userId = The(ui.auth)
  /\ validateLinkData(ui.data)

ClicksOnlyGrow ==
  /\ \A k \in (DOMAIN ui.data \cup DOMAIN The(ui.resource)) \ {"clicks"} :
       /\ k \in DOMAIN ui.data /\ k \in DOMAIN The(ui.resource)
       /\ ui.data[k] = The(ui.resource)[k]
  /\ ui.data.clicks >= The(ui.resource).clicks

\* C26: a create is permitted exactly when the requester is authenticated
\* and the new document is a valid link of the requester with clicks 0; an
\* update is permitted only to the owner of the stored document, changing
\* nothing but clicks and not decreasing it.
C26_RulesPermit ==
  /\ RuleDecided("create") => (ui.allowed <=> OwnValidLink)
  /\ (RuleDecided("update") /\ ui.allowed)
       => /\ ui.auth # None /\ The(ui.auth) = The(ui.resource).userId
          /\ ClicksOnlyGrow

\* ---------------------------------------------------------------------- C27

\* The fields click tracking must leave alone.
SameIdentity(a, b) ==
  /\ a.id = b.id /\ a.originalUrl = b.originalUrl /\ a.shortCode = b.shortCode
  /\ a.createdAt = b.createdAt /\ a.userId = b.userId

\* The redirect of slot p takes a step.
RedirectStep(p) ==
  \/ Free(p) /\ ~Free(p)' /\ req'[p].kind = "redirect"
  \/ Free(p) /\ pc'[p] = "done" /\ req'[p].kind = "redirect" /\ started' # started
  \/ Redirecting(p) /\ ~Free(p) /\ pc'[p] # pc[p]

C27_FrameStep ==
  \A p \in Procs :
    RedirectStep(p) =>
      /\ DOMAIN links' = DOMAIN links
      /\ \A i \in DOMAIN links :
           /\ SameIdentity(links'[i], links[i])
           /\ links'[i] # links[i] => Found(p) /\ The(link[p]).id = i
           /\ pc[p] # "primary" => links'[i].lastClickedAt = links[i].lastClickedAt
           /\ pc[p] \notin {"primary", "fallback"} => links'[i] = links[i]

\* C27: a step of a redirect changes no link but the one it resolved, of
\* that link nothing but clicks and lastClickedAt in the primary update and
\* nothing but clicks in the fallback, and never adds or removes a link.
C27_TrackingFrame == [][C27_FrameStep]_vars

C27_Witness ==
  \E p \in Procs :
    /\ Redirecting(p) /\ Finished(p)
    /\ "ok" \in Outcomes(p, "incrementLinkClicks")
    /\ \E i \in DOMAIN links : links[i].clicks > 0 /\ links[i].lastClickedAt # NoTime

\* ---------------------------------------------------------------------- C30

AppliedWrites(p) == {i \in Tracked(p) : Applied(calls[p][i][2])}

\* C30: the backend applies at most one click update for one redirect
\* request, over the primary update and the fallback together.
C30_AtMostOneClickPerRedirect ==
  \A p \in Procs : Redirecting(p) => Cardinality(AppliedWrites(p)) <= 1

PrimaryLost(p) == "lost" \in Outcomes(p, "updateClickStats")

\* C30, amended: one redirect request makes at most one primary update and
\* at most one fallback call; the backend applies at most two click updates
\* for it, and at most one unless the primary update was applied and
\* reported as failed.
C30_AtMostOneClickUnlessLost ==
  \A p \in Procs :
    Redirecting(p) =>
      /\ Cardinality(Events(p, "updateClickStats")) <= 1
      /\ Cardinality(Events(p, "incrementLinkClicks")) <= 1
      /\ Cardinality(AppliedWrites(p)) <= 2
      /\ ~PrimaryLost(p) => Cardinality(AppliedWrites(p)) <= 1

C30_Witness ==
  \E p \in Procs :
    /\ Redirecting(p) /\ Finished(p) /\ PrimaryLost(p)
    /\ Cardinality(AppliedWrites(p)) = 2

\* ---------------------------------------------------------------------- C29

OnLandingPage == ui.page = "landing"

C29_SettledState ==
  OnLandingPage =>
    /\ ui.isLoading <=> ui.outcome = "pending"
    /\ ui.outcome = "success" => ui.result # None /\ ui.error = ""
    /\ ui.outcome \in {"failure", "thrown"} => ui.result = None /\ ui.error # ""
    /\ ui.outcome \in {"none", "pending"} => ui.result = None /\ ui.error = ""

C29_SettleStep ==
  (ui.isLoading /\ ~ui'.isLoading) =>
    IF ui'.outcome = "success"
    THEN ui'.url = <<>> /\ ui'.customShortCode = <<>>
    ELSE ui'.url = ui.url /\ ui'.customShortCode = ui.customShortCode

\* C29: when the shorten call has settled, with a success result, a failure
\* result or an error thrown, isLoading is false and exactly one of the
\* result and a non-empty error message is set; the inputs are emptied by a
\* success and left as they were by a failure.
C29_ShortenSettles == []C29_SettledState /\ [][C29_SettleStep]_vars

C29_Witness ==
  /\ OnLandingPage /\ ui.outcome = "failure" /\ ~ui.isLoading
  /\ ui.url # <<>> /\ ui.customShortCode # <<>>

====
